---- MODULE Spec2Model ----
(***************************************************************************)
(* couch-nagger: the monitor loop of dog_detector.app.couch_monitor        *)
(* (CouchMonitorApp.run / check_and_alert) as a state machine.             *)
(*                                                                         *)
(* Time is integer seconds.  The collaborators behind the three ports      *)
(* (frame source, detector, alert sink) are the environment: each call     *)
(* either returns or raises an Exception, and the detector returns any     *)
(* DetectionResult.  time.time() is read from `clock`, which the           *)
(* environment may set to any value while the loop sleeps (the wall clock  *)
(* can be stepped backwards).                                              *)
(***************************************************************************)
EXTENDS Integers, Sequences, FiniteSets, TLC

\* ---------------------------------------------------------------- bounds
MaxTime == 6        \* clock readings are 0..MaxTime
MaxCooldown == 2    \* configured alert_cooldown is 0..MaxCooldown
MaxStreak == 3      \* the streak length counter saturates here

Times == 0..MaxTime
NoTime == -1

Min(a, b) == IF a <= b THEN a ELSE b

\* ----------------------------------------------------------------- state
VARIABLES
    alert_cooldown,   \* self.alert_cooldown (settings.detection.alert_cooldown)
    test_mode,        \* self.test_mode
    last_alert_time,  \* self.last_alert_time
    running,          \* self.running
    pc,               \* position of the control thread inside run / check_and_alert
    clock,            \* what time.time() returns now
    result,           \* local `result` of check_and_alert
    current_time,     \* local `current_time` of check_and_alert
    exit_cause,       \* how run() was left: "none", "KeyboardInterrupt", "Exception"
    cyc,              \* history of the cycle in progress (observation only)
    sinkLog,          \* the last two calls of alert_sink.alert (observation only)
    seen_dog,         \* a cycle has already obtained a dog_on_couch result
    streak,           \* the run of in-cooldown dog cycles since the last alert
    geo,              \* one call of calculate_overlap_ratio: arguments and return
    det,              \* one call of UltralyticsDetector.detect: inputs, locals, outcome
    boot,             \* one run of bootstrap.main: environment, settings, objects built
    audio             \* one call of AudioAlert.alert: its object, position and outcome

vars == << alert_cooldown, test_mode, last_alert_time, running, pc, clock,
           result, current_time, exit_cause, cyc, sinkLog, seen_dog, streak,
           geo, det, boot, audio >>

\* The variables of the monitor loop.
mvars == << alert_cooldown, test_mode, last_alert_time, running, pc, clock,
            result, current_time, exit_cause, cyc, sinkLog, seen_dog, streak >>

\* No call of calculate_overlap_ratio / detect / main / alert is being observed.
NoCall == [pc |-> "none"]

\* DetectionResult (domain/model.py), reduced to what check_and_alert reads:
\* dog_on_couch, and whether boxes["person"] and boxes["couch"] are both
\* non-empty.
NoResult == [valid |-> FALSE, dog_on_couch |-> FALSE, person_and_couch |-> FALSE]

DetectionResults ==
    { [valid |-> TRUE, dog_on_couch |-> d, person_and_couch |-> p] :
        d \in BOOLEAN, p \in BOOLEAN }

\* self.last_alert_time = 0.0 in __init__
InitialLastAlertTime == 0

NewCycle(last) ==
    [ prev_last   |-> last,      \* last_alert_time when the cycle began
      prev_failed |-> FALSE,     \* get_frame or detect raised in the cycle before
      failed_at   |-> NoTime,    \* when check_and_alert's sink call last raised,
                                 \* no dog_on_couch result decided on since
      detected    |-> FALSE,     \* detector.detect returned
      dog         |-> FALSE,     \* result.dog_on_couch
      person      |-> FALSE,     \* person and couch boxes present
      first_dog   |-> FALSE,     \* first dog_on_couch result of this app
      now         |-> NoTime,    \* the time read by this cycle
      action      |-> "none",    \* "NoAlert", "Alert", "Suppressed"
      remaining   |-> 0,         \* the logged cooldown remainder
      check_calls |-> 0,         \* alert_sink.alert calls made by check_and_alert
      test_calls  |-> 0,         \* alert_sink.alert calls made by run (test_mode)
      error       |-> "none" ]   \* which call raised: "frame", "detect", "sink"

\* failed_at for the cycle after cycle c: the time c read if its sink call
\* raised; cleared once a cycle has decided on a dog_on_couch result; kept
\* through cycles without one.
FailedAlertAt(c) ==
    IF c.error = "sink" THEN c.now
    ELSE IF c.detected /\ c.dog THEN NoTime
    ELSE c.failed_at

NoStreak == [active |-> FALSE, t0 |-> 0, n |-> 0, calls |-> 0, suppressed |-> TRUE]

\* ------------------------------------------------- check_and_alert pieces
\* Variants of the cooldown test, as a slip in line 60 would make them.
CooldownElapsed_ge(now, last, cooldown) == now - last >= cooldown

CooldownElapsed_abs(now, last, cooldown) ==
    (IF now >= last THEN now - last ELSE last - now) > cooldown

CooldownElapsed_nocheck(now, last, cooldown) == TRUE

\* if time_since_last_alert > self.alert_cooldown
CooldownElapsed(now, last, cooldown) == now - last > cooldown

\* remaining = int(self.alert_cooldown - time_since_last_alert)
Remaining(now, last, cooldown) == cooldown - (now - last)

\* One call of alert_sink.alert entering the log; the log keeps two calls.
Invoke(log, t, src) ==
    LET e == [t |-> t, src |-> src, state |-> "busy"]
    IN  IF Len(log) < 2 THEN Append(log, e) ELSE << log[2], e >>

\* The call in flight ends, by returning or by raising.
Finish(log, how) == [log EXCEPT ![Len(log)].state = how]

SinkBusy == Len(sinkLog) > 0 /\ sinkLog[Len(sinkLog)].state = "busy"

\* The streak bookkeeping at the end of a cycle c: a cycle that obtained a
\* dog_on_couch result without any failure, at a time at most alert_cooldown
\* after the alert that opened the streak, extends it; otherwise a cycle whose
\* alert went out opens a new one; anything else closes it.
StreakAfter(s, c) ==
    LET ok == c.error = "none" /\ c.detected /\ c.dog
    IN  IF s.active /\ ok /\ c.now <= s.t0 + alert_cooldown
        THEN [ s EXCEPT !.n = Min(@ + 1, MaxStreak),
                        !.calls = Min(@ + c.check_calls, 2),
                        !.suppressed = @ /\ c.action = "Suppressed" ]
        ELSE IF ok /\ c.check_calls = 1
        THEN [active |-> TRUE, t0 |-> c.now, n |-> 1, calls |-> 1,
              suppressed |-> TRUE]
        ELSE NoStreak

\* check_and_alert hands control back to run, which goes on to time.sleep.
ReturnToRun(c) ==
    /\ pc' = "sleep"
    /\ cyc' = c
    /\ streak' = StreakAfter(streak, c)
    /\ result' = NoResult
    /\ current_time' = NoTime

\* ------------------------------------------------------------------ Init
Init ==
    /\ alert_cooldown \in 0..MaxCooldown
    /\ test_mode \in BOOLEAN
    /\ last_alert_time = InitialLastAlertTime
    /\ running = FALSE
    /\ pc = "init"
    /\ clock \in Times
    /\ result = NoResult
    /\ current_time = NoTime
    /\ exit_cause = "none"
    /\ cyc = NewCycle(InitialLastAlertTime)
    /\ sinkLog = << >>
    /\ seen_dog = FALSE
    /\ streak = NoStreak
    /\ geo = NoCall
    /\ det = NoCall
    /\ boot = NoCall
    /\ audio = NoCall

\* --------------------------------------------------------------- actions
\* run(): self.running = True
Run ==
    /\ pc = "init"
    /\ running' = TRUE
    /\ pc' = "loop"
    /\ UNCHANGED << boot, audio, geo, det, alert_cooldown, test_mode, last_alert_time, clock, result,
                    current_time, exit_cause, cyc, sinkLog, seen_dog, streak >>

\* Variant: the test alert is sent whether or not test_mode is set.
LoopTop_always_test ==
    /\ pc = "loop"
    /\ running
    /\ pc' = "test_alert"
    /\ sinkLog' = Invoke(sinkLog, clock, "test")
    /\ cyc' = [NewCycle(last_alert_time) EXCEPT
                   !.test_calls = 1,
                   !.prev_failed = cyc.error \in {"frame", "detect"},
                   !.failed_at = FailedAlertAt(cyc)]
    /\ UNCHANGED << boot, audio, geo, det, alert_cooldown, test_mode, last_alert_time, running, clock,
                    result, current_time, exit_cause, seen_dog, streak >>

\* while self.running: tick += 1; if self.test_mode: self.alert_sink.alert(...)
\* else straight into check_and_alert.  (tick is never read.)
LoopTop ==
    /\ pc = "loop"
    /\ running
    /\ IF test_mode
       THEN /\ pc' = "test_alert"
            /\ sinkLog' = Invoke(sinkLog, clock, "test")
            /\ cyc' = [NewCycle(last_alert_time) EXCEPT
                           !.test_calls = 1,
                           !.prev_failed = cyc.error \in {"frame", "detect"},
                   !.failed_at = FailedAlertAt(cyc)]
       ELSE /\ pc' = "get_frame"
            /\ sinkLog' = sinkLog
            /\ cyc' = [NewCycle(last_alert_time) EXCEPT
                           !.prev_failed = cyc.error \in {"frame", "detect"},
                   !.failed_at = FailedAlertAt(cyc)]
    /\ UNCHANGED << boot, audio, geo, det, alert_cooldown, test_mode, last_alert_time, running, clock,
                    result, current_time, exit_cause, seen_dog, streak >>

\* The test_mode call of the sink returns; run goes on to check_and_alert.
TestAlertReturn ==
    /\ pc = "test_alert"
    /\ sinkLog' = Finish(sinkLog, "returned")
    /\ pc' = "get_frame"
    /\ UNCHANGED << boot, audio, geo, det, alert_cooldown, test_mode, last_alert_time, running, clock,
                    result, current_time, exit_cause, cyc, seen_dog, streak >>

\* The test_mode call of the sink raises: run has no handler for Exception
\* (only KeyboardInterrupt), so it leaves run through the finally clause.
TestAlertRaise ==
    /\ pc = "test_alert"
    /\ sinkLog' = Finish(sinkLog, "raised")
    /\ cyc' = [cyc EXCEPT !.error = "sink"]
    /\ running' = FALSE
    /\ pc' = "exited"
    /\ exit_cause' = "Exception"
    /\ UNCHANGED << boot, audio, geo, det, alert_cooldown, test_mode, last_alert_time, clock, result,
                    current_time, seen_dog, streak >>

\* frame, image_filename = self.frame_source.get_frame()
GetFrameOk ==
    /\ pc = "get_frame"
    /\ pc' = "detect"
    /\ UNCHANGED << boot, audio, geo, det, alert_cooldown, test_mode, last_alert_time, running, clock,
                    result, current_time, exit_cause, cyc, sinkLog, seen_dog,
                    streak >>

\* Variant: the handler stamps last_alert_time when a cycle fails.
GetFrameRaise_stamp ==
    /\ pc = "get_frame"
    /\ last_alert_time' = clock
    /\ ReturnToRun([cyc EXCEPT !.error = "frame"])
    /\ UNCHANGED << boot, audio, geo, det, alert_cooldown, test_mode, running, clock,
                    exit_cause, sinkLog, seen_dog >>

\* get_frame raises: except Exception logs it, check_and_alert returns.
GetFrameRaise ==
    /\ pc = "get_frame"
    /\ ReturnToRun([cyc EXCEPT !.error = "frame"])
    /\ UNCHANGED << boot, audio, geo, det, alert_cooldown, test_mode, last_alert_time, running, clock,
                    exit_cause, sinkLog, seen_dog >>

\* result = self.detector.detect(frame, image_filename=image_filename)
DetectOk ==
    /\ pc = "detect"
    /\ \E r \in DetectionResults :
         /\ result' = r
         /\ cyc' = [cyc EXCEPT !.detected = TRUE,
                               !.dog = r.dog_on_couch,
                               !.person = r.person_and_couch,
                               !.first_dog = r.dog_on_couch /\ ~seen_dog]
         /\ seen_dog' = (seen_dog \/ r.dog_on_couch)
    /\ pc' = "decide"
    /\ UNCHANGED << boot, audio, geo, det, alert_cooldown, test_mode, last_alert_time, running, clock,
                    current_time, exit_cause, sinkLog, streak >>

\* detect raises: except Exception logs it, check_and_alert returns.
DetectRaise ==
    /\ pc = "detect"
    /\ ReturnToRun([cyc EXCEPT !.error = "detect"])
    /\ UNCHANGED << boot, audio, geo, det, alert_cooldown, test_mode, last_alert_time, running, clock,
                    exit_cause, sinkLog, seen_dog >>

\* Variant: a person on the couch is alert-worthy too (the project's older
\* behaviour).
Decide_person ==
    /\ pc = "decide"
    /\ IF ~(result.dog_on_couch \/ result.person_and_couch)
       THEN /\ ReturnToRun([cyc EXCEPT !.action = "NoAlert"])
            /\ sinkLog' = sinkLog
       ELSE IF CooldownElapsed(clock, last_alert_time, alert_cooldown)
       THEN /\ pc' = "alert"
            /\ current_time' = clock
            /\ sinkLog' = Invoke(sinkLog, clock, "check")
            /\ cyc' = [cyc EXCEPT !.now = clock, !.action = "Alert",
                                  !.check_calls = @ + 1]
            /\ UNCHANGED << result, streak >>
       ELSE /\ ReturnToRun([cyc EXCEPT
                   !.now = clock, !.action = "Suppressed",
                   !.remaining = Remaining(clock, last_alert_time, alert_cooldown)])
            /\ sinkLog' = sinkLog
    /\ UNCHANGED << boot, audio, geo, det, alert_cooldown, test_mode, last_alert_time, running,
                    clock, exit_cause, seen_dog >>

\* if result.dog_on_couch: current_time = time.time(); compare with the
\* cooldown; either call the sink or log the remaining cooldown.
Decide ==
    /\ pc = "decide"
    /\ IF ~result.dog_on_couch
       THEN /\ ReturnToRun([cyc EXCEPT !.action = "NoAlert"])
            /\ sinkLog' = sinkLog
       ELSE IF CooldownElapsed(clock, last_alert_time, alert_cooldown)
       THEN /\ pc' = "alert"
            /\ current_time' = clock
            /\ sinkLog' = Invoke(sinkLog, clock, "check")
            /\ cyc' = [cyc EXCEPT !.now = clock, !.action = "Alert",
                                  !.check_calls = @ + 1]
            /\ UNCHANGED << result, streak >>
       ELSE /\ ReturnToRun([cyc EXCEPT
                   !.now = clock, !.action = "Suppressed",
                   !.remaining = Remaining(clock, last_alert_time, alert_cooldown)])
            /\ sinkLog' = sinkLog
    /\ UNCHANGED << boot, audio, geo, det, alert_cooldown, test_mode, last_alert_time, running, clock,
                    exit_cause, seen_dog >>

\* Variant: the alert goes out but last_alert_time is not assigned.
AlertReturn_norecord ==
    /\ pc = "alert"
    /\ sinkLog' = Finish(sinkLog, "returned")
    /\ ReturnToRun(cyc)
    /\ UNCHANGED << boot, audio, geo, det, alert_cooldown, test_mode, last_alert_time, running, clock,
                    exit_cause, seen_dog >>

\* self.alert_sink.alert(result) returns; self.last_alert_time = current_time
AlertReturn ==
    /\ pc = "alert"
    /\ sinkLog' = Finish(sinkLog, "returned")
    /\ last_alert_time' = current_time
    /\ ReturnToRun(cyc)
    /\ UNCHANGED << boot, audio, geo, det, alert_cooldown, test_mode, running, clock, exit_cause,
                    seen_dog >>

\* Variant: last_alert_time is assigned before the sink is called, so a
\* raising sink still starts the cooldown.
AlertRaise_record ==
    /\ pc = "alert"
    /\ sinkLog' = Finish(sinkLog, "raised")
    /\ last_alert_time' = current_time
    /\ ReturnToRun([cyc EXCEPT !.error = "sink"])
    /\ UNCHANGED << boot, audio, geo, det, alert_cooldown, test_mode, running, clock, exit_cause,
                    seen_dog >>

\* Variant: the handler of a raising sink starts the cooldown at the clock's
\* reading.
AlertRaise_cooldown ==
    /\ pc = "alert"
    /\ sinkLog' = Finish(sinkLog, "raised")
    /\ last_alert_time' = clock
    /\ ReturnToRun([cyc EXCEPT !.error = "sink"])
    /\ UNCHANGED << boot, audio, geo, det, alert_cooldown, test_mode, running, clock, exit_cause,
                    seen_dog >>

\* Variant: a failed alert puts last_alert_time back to its initial value.
AlertRaise_reset ==
    /\ pc = "alert"
    /\ sinkLog' = Finish(sinkLog, "raised")
    /\ last_alert_time' = InitialLastAlertTime
    /\ ReturnToRun([cyc EXCEPT !.error = "sink"])
    /\ UNCHANGED << boot, audio, geo, det, alert_cooldown, test_mode, running, clock, exit_cause,
                    seen_dog >>

\* Variant: check_and_alert has no handler, the sink's exception leaves run.
AlertRaise_propagate ==
    /\ pc = "alert"
    /\ sinkLog' = Finish(sinkLog, "raised")
    /\ cyc' = [cyc EXCEPT !.error = "sink"]
    /\ running' = FALSE
    /\ pc' = "exited"
    /\ exit_cause' = "Exception"
    /\ UNCHANGED << boot, audio, geo, det, alert_cooldown, test_mode, last_alert_time, clock, result,
                    current_time, seen_dog, streak >>

\* self.alert_sink.alert(result) raises: the assignment is skipped, except
\* Exception logs it, check_and_alert returns.
AlertRaise ==
    /\ pc = "alert"
    /\ sinkLog' = Finish(sinkLog, "raised")
    /\ ReturnToRun([cyc EXCEPT !.error = "sink"])
    /\ UNCHANGED << boot, audio, geo, det, alert_cooldown, test_mode, last_alert_time, running, clock,
                    exit_cause, seen_dog >>

\* time.sleep(self.check_interval); the wall clock reads anything afterwards.
Sleep ==
    /\ pc = "sleep"
    /\ \E t \in Times : clock' = t
    /\ pc' = "loop"
    /\ UNCHANGED << boot, audio, geo, det, alert_cooldown, test_mode, last_alert_time, running, result,
                    current_time, exit_cause, cyc, sinkLog, seen_dog, streak >>

\* KeyboardInterrupt is no Exception: wherever it arrives inside run, it is
\* caught only by run's except KeyboardInterrupt; finally: self.running = False
KeyboardInterrupt ==
    /\ pc \in {"loop", "test_alert", "get_frame", "detect", "decide", "alert",
               "sleep"}
    /\ running' = FALSE
    /\ pc' = "exited"
    /\ exit_cause' = "KeyboardInterrupt"
    /\ UNCHANGED << boot, audio, geo, det, alert_cooldown, test_mode, last_alert_time, clock, result,
                    current_time, cyc, sinkLog, seen_dog, streak >>

Next ==
    \/ Run
    \/ LoopTop
    \/ TestAlertReturn
    \/ TestAlertRaise
    \/ GetFrameOk
    \/ GetFrameRaise
    \/ DetectOk
    \/ DetectRaise
    \/ Decide
    \/ AlertReturn
    \/ AlertRaise
    \/ Sleep
    \/ KeyboardInterrupt

Spec == Init /\ [][Next]_vars

TypeOK ==
    /\ alert_cooldown \in 0..MaxCooldown
    /\ test_mode \in BOOLEAN
    /\ last_alert_time \in Times
    /\ running \in BOOLEAN
    /\ clock \in Times
    /\ current_time \in Times \cup {NoTime}
    /\ Len(sinkLog) <= 2

\* ================================================================ claims
\* The cycle in progress has taken its decision on a dog_on_couch result.
DogDecided == cyc.detected /\ cyc.dog /\ pc \in {"alert", "sleep", "loop"}

\* The decision the cycle's own readings call for, written out from the
\* recorded readings (not from the action the model took).
AlertDue == cyc.detected /\ cyc.dog /\ cyc.now - cyc.prev_last > alert_cooldown

\* check_and_alert's call of the sink went out and came back.
Emitted == cyc.check_calls = 1 /\ cyc.error = "none" /\ ~SinkBusy

\* C1: in check_and_alert, a result with dog_on_couch = true makes the cycle
\* read the time, and check_and_alert calls the alert sink if and only if
\* (now - last_alert_time) > alert_cooldown, strictly: a check exactly
\* alert_cooldown after the last alert is suppressed, any later one alerts.
C1_StrictCooldown ==
    DogDecided =>
        /\ cyc.now \in Times
        /\ cyc.check_calls = 1 <=> cyc.now - cyc.prev_last > alert_cooldown
        /\ cyc.check_calls \in {0, 1}

\* C1 witness: after a real alert, a dog cycle exactly alert_cooldown (> 0)
\* later has finished without calling the sink.
C1_Witness ==
    /\ pc = "sleep"
    /\ cyc.detected /\ cyc.dog
    /\ alert_cooldown > 0
    /\ cyc.prev_last > 0
    /\ cyc.now = cyc.prev_last + alert_cooldown
    /\ cyc.check_calls = 0

\* C2: through any run of consecutive failure-free dog_on_couch cycles that
\* opens with an emitted alert and whose later cycles all run at most
\* alert_cooldown after that first cycle, check_and_alert calls the sink exactly
\* once (in the first cycle) and every later cycle is suppressed.
C2_OneAlertPerWindow ==
    streak.active => streak.calls = 1 /\ streak.suppressed

\* C2 witness: such a run of three cycles (one alert, two suppressed).
C2_Witness ==
    /\ streak.active
    /\ streak.n >= 3
    /\ alert_cooldown > 0
    /\ pc = "sleep"

\* C3 (as claimed): the first cycle of a fresh app that obtains a
\* dog_on_couch result calls the alert sink, whatever the time read and
\* whatever alert_cooldown >= 0.
C3_FirstDogAlerts ==
    (cyc.first_dog /\ pc \in {"alert", "sleep", "loop"}) => cyc.check_calls = 1

\* C4: during a cycle last_alert_time keeps the value it had when the cycle
\* began; after the cycle it is the time the cycle read if the cycle emitted
\* an alert (the sink was called and returned), and that same old value
\* otherwise (no dog, suppressed, or a failure anywhere in the cycle).
C4_LastAlertTimeFrame ==
    /\ pc \in {"test_alert", "get_frame", "detect", "decide", "alert"}
         => last_alert_time = cyc.prev_last
    /\ pc = "sleep"
         => last_alert_time = IF Emitted THEN cyc.now ELSE cyc.prev_last

\* C4 witness: a second alert has just been recorded over an earlier one.
C4_Witness ==
    /\ pc = "sleep"
    /\ Emitted
    /\ cyc.prev_last > 0
    /\ cyc.now # cyc.prev_last
    /\ last_alert_time = cyc.now

\* C5: last_alert_time never decreases, whatever the clock reads.
C5_LastAlertTimeMonotone ==
    [][last_alert_time' >= last_alert_time]_vars

\* C5 witness: two sink calls of check_and_alert, the second at a smaller
\* clock reading than the first (the clock went backwards in between), and
\* last_alert_time has advanced to the second.
C5_Witness ==
    /\ ~test_mode
    /\ Len(sinkLog) = 2
    /\ sinkLog[1].t > sinkLog[2].t
    /\ pc = "sleep"
    /\ last_alert_time = sinkLog[2].t
    /\ last_alert_time > 0

\* C6: a dog_on_couch cycle that reads a time below last_alert_time calls no
\* sink, leaves last_alert_time alone and returns to the loop's wait without
\* any failure.
C6_RollbackSuppressed ==
    (DogDecided /\ cyc.now \in Times /\ cyc.now < cyc.prev_last) =>
        /\ pc # "alert"
        /\ cyc.check_calls = 0
        /\ cyc.action = "Suppressed"
        /\ cyc.error = "none"
        /\ last_alert_time = cyc.prev_last
        /\ exit_cause = "none"

\* C6 witness: such a cycle has finished.
C6_Witness ==
    /\ pc = "sleep"
    /\ cyc.detected /\ cyc.dog
    /\ cyc.now \in Times
    /\ cyc.now < cyc.prev_last
    /\ running

C8_OneCallIffAlert ==
    pc = "sleep" =>
        /\ cyc.check_calls + cyc.test_calls = (IF AlertDue THEN 1 ELSE 0)
        /\ ~SinkBusy

\* C8 (amended): with test_mode off the sink is called once in a cycle whose
\* decision is Alert and not at all otherwise; with test_mode on the loop
\* itself makes one more call at the start of every cycle; in both cases no
\* call is in flight when the wait begins.
C8_CallsPerCycle ==
    pc = "sleep" =>
        /\ cyc.check_calls = (IF AlertDue THEN 1 ELSE 0)
        /\ cyc.test_calls = (IF test_mode THEN 1 ELSE 0)
        /\ ~SinkBusy

\* C8 witness: with test_mode off, a cycle whose decision was Alert has made
\* its one call and reached the wait.
C8_Witness ==
    /\ pc = "sleep"
    /\ ~test_mode
    /\ AlertDue
    /\ cyc.check_calls = 1
    /\ cyc.test_calls = 0
    /\ sinkLog[Len(sinkLog)].state = "returned"

\* C9: when get_frame, detect or the sink raises inside check_and_alert, the
\* cycle ends there: last_alert_time is not assigned, run is not left, and the
\* loop is at its wait.
C9_FailureContained ==
    [][ ( /\ pc \in {"get_frame", "detect", "alert"}
          /\ cyc.error = "none"
          /\ cyc'.error # "none" )
        => ( /\ pc' = "sleep"
             /\ last_alert_time' = last_alert_time
             /\ running'
             /\ exit_cause' = "none" ) ]_vars

\* C9 witness: the sink raised in check_and_alert and the loop is at its wait.
C9_Witness ==
    /\ pc = "sleep"
    /\ cyc.error = "sink"
    /\ cyc.check_calls = 1
    /\ running

\* C10 (as claimed): run is left only by external cancellation.
C10_ExitOnlyOnCancel ==
    pc = "exited" => exit_cause = "KeyboardInterrupt"

\* The positions inside one iteration of run's loop, before its wait.
CyclePcs == {"test_alert", "get_frame", "detect", "decide", "alert"}

\* C11: a cycle in which get_frame or detect raised has called no sink and
\* left last_alert_time as it was; and the cycle after such a cycle, when it
\* obtains a dog_on_couch result at a time more than alert_cooldown after
\* last_alert_time, calls the alert sink.
C11_FailureDoesNotBlockNextAlert ==
    /\ (pc \in {"sleep", "loop"} /\ cyc.error \in {"frame", "detect"})
         => /\ last_alert_time = cyc.prev_last
            /\ cyc.check_calls = 0
    /\ (DogDecided /\ cyc.prev_failed /\ cyc.now - cyc.prev_last > alert_cooldown)
         => cyc.check_calls = 1

\* C11 witness: after an earlier alert, a cycle failed, and the cycle after it
\* has alerted again (outside the cooldown).
C11_Witness ==
    /\ pc = "sleep"
    /\ cyc.prev_failed
    /\ cyc.prev_last > 0
    /\ cyc.dog
    /\ cyc.check_calls = 1
    /\ cyc.error = "none"
    /\ last_alert_time = cyc.now

\* C29: when the sink raises in check_and_alert's call, last_alert_time stays
\* what it was when the cycle began; and the next cycle that decides on a
\* dog_on_couch result, at a clock reading not below the failed cycle's
\* (however little above it), calls the sink again.
C29_FailedAlertRetried ==
    /\ (pc \in {"sleep", "loop"} /\ cyc.error = "sink")
         => last_alert_time = cyc.prev_last
    /\ (DogDecided /\ cyc.failed_at # NoTime /\ cyc.now >= cyc.failed_at)
         => /\ cyc.action = "Alert"
            /\ cyc.check_calls = 1

\* C29 witness: the sink raised after an earlier alert had been recorded, and
\* the next dog cycle, at the very same clock reading and with a positive
\* cooldown, is calling the sink again.
C29_Witness ==
    /\ pc = "alert"
    /\ SinkBusy
    /\ alert_cooldown > 0
    /\ cyc.prev_last > 0
    /\ cyc.failed_at # NoTime
    /\ cyc.now = cyc.failed_at
    /\ cyc.check_calls = 1

\* C12 (as claimed): every iteration of run's loop that ends without
\* cancellation ends in the wait, whatever happened in it; the wait is followed
\* by the loop test only, and an iteration starts only from the loop test.
C12_CycleThenWait ==
    [][ /\ (pc \in CyclePcs /\ pc' \notin CyclePcs /\ exit_cause' # "KeyboardInterrupt")
           => pc' = "sleep"
        /\ (pc = "sleep" /\ pc' # "sleep" /\ exit_cause' # "KeyboardInterrupt")
           => pc' = "loop"
        /\ (pc \notin CyclePcs /\ pc' \in CyclePcs) => pc = "loop" ]_vars

\* C13 (as claimed): when run has been left by KeyboardInterrupt, no cycle
\* was cut short: no sink call is left in flight, a sink call that went out has
\* its time recorded, and a result that was obtained has been decided on.
C13_NoCycleCutShort ==
    (pc = "exited" /\ exit_cause = "KeyboardInterrupt") =>
        /\ ~(SinkBusy /\ sinkLog[Len(sinkLog)].src = "check")
        /\ (cyc.check_calls = 1 /\ cyc.error = "none") => last_alert_time = cyc.now
        /\ cyc.detected => cyc.action # "none"

\* C14: whether check_and_alert calls the sink is decided by dog_on_couch, the
\* time, last_alert_time and alert_cooldown alone: once a result has been
\* decided on, the sink was called iff dog_on_couch and the cooldown had
\* elapsed, with or without person and couch boxes in the result.
C14_PersonNeverAlerts ==
    (cyc.detected /\ pc \in {"alert", "sleep"}) =>
        (cyc.check_calls = 1 <=>
            (cyc.dog /\ clock - cyc.prev_last > alert_cooldown))

\* C14 witness: a result with person and couch boxes and no dog_on_couch, at
\* a time when the cooldown has elapsed, has been decided on without a call.
C14_Witness ==
    /\ pc = "sleep"
    /\ cyc.detected
    /\ cyc.person
    /\ ~cyc.dog
    /\ clock - cyc.prev_last > alert_cooldown
    /\ cyc.check_calls = 0
    /\ cyc.action = "NoAlert"

\* ======================================================== geometry module
\* adapters/ultralytics_detector.py: calculate_overlap_ratio, applied to every
\* pair of integer 4-tuples [x1, y1, x2, y2] over 0..MaxCoord, well-formed or
\* not.  A float is kept as the exact fraction num/den with den > 0; `raised`
\* stands for ZeroDivisionError.
MaxCoord == 3

Coords == 0..MaxCoord
AllBoxes == Coords \X Coords \X Coords \X Coords

\* Python's max(a, b) and min(a, b): the first argument wins a tie.
PyMax(a, b) == IF b > a THEN b ELSE a
PyMin(a, b) == IF b < a THEN b ELSE a

\* The float 0.0.
Float0 == [raised |-> FALSE, num |-> 0, den |-> 1]

\* Python's n / d on numbers.
TrueDiv(n, d) ==
    IF d = 0 THEN [raised |-> TRUE, num |-> 0, den |-> 1]
    ELSE IF d < 0 THEN [raised |-> FALSE, num |-> 0 - n, den |-> 0 - d]
    ELSE [raised |-> FALSE, num |-> n, den |-> d]

\* Comparisons of two floats kept as fractions.
FloatEq(a, b) == a.num * b.den = b.num * a.den
FloatLt(a, b) == a.num * b.den < b.num * a.den
FloatLe(a, b) == a.num * b.den <= b.num * a.den

\* Variant: the no-overlap test joins the two axes with `and`.
calculate_overlap_ratio_and(dog_box, couch_box) ==
    LET inter_x1 == PyMax(dog_box[1], couch_box[1])
        inter_y1 == PyMax(dog_box[2], couch_box[2])
        inter_x2 == PyMin(dog_box[3], couch_box[3])
        inter_y2 == PyMin(dog_box[4], couch_box[4])
        intersection_area == (inter_x2 - inter_x1) * (inter_y2 - inter_y1)
        dog_area == (dog_box[3] - dog_box[1]) * (dog_box[4] - dog_box[2])
    IN  IF inter_x2 <= inter_x1 /\ inter_y2 <= inter_y1 THEN Float0
        ELSE IF dog_area <= 0 THEN Float0
        ELSE TrueDiv(intersection_area, dog_area)

\* Variant: the no-overlap test looks at the x axis only.
calculate_overlap_ratio_xonly(dog_box, couch_box) ==
    LET inter_x1 == PyMax(dog_box[1], couch_box[1])
        inter_y1 == PyMax(dog_box[2], couch_box[2])
        inter_x2 == PyMin(dog_box[3], couch_box[3])
        inter_y2 == PyMin(dog_box[4], couch_box[4])
        intersection_area == (inter_x2 - inter_x1) * (inter_y2 - inter_y1)
        dog_area == (dog_box[3] - dog_box[1]) * (dog_box[4] - dog_box[2])
    IN  IF inter_x2 <= inter_x1 THEN Float0
        ELSE IF dog_area <= 0 THEN Float0
        ELSE TrueDiv(intersection_area, dog_area)

\* Variant: min and max are swapped, so the rectangle is the hull of the two
\* boxes instead of their intersection.
calculate_overlap_ratio_hull(dog_box, couch_box) ==
    LET inter_x1 == PyMin(dog_box[1], couch_box[1])
        inter_y1 == PyMin(dog_box[2], couch_box[2])
        inter_x2 == PyMax(dog_box[3], couch_box[3])
        inter_y2 == PyMax(dog_box[4], couch_box[4])
        intersection_area == (inter_x2 - inter_x1) * (inter_y2 - inter_y1)
        dog_area == (dog_box[3] - dog_box[1]) * (dog_box[4] - dog_box[2])
    IN  IF inter_x2 <= inter_x1 \/ inter_y2 <= inter_y1 THEN Float0
        ELSE IF dog_area <= 0 THEN Float0
        ELSE TrueDiv(intersection_area, dog_area)

\* Variant: the intersection is divided by the couch's area.
calculate_overlap_ratio_couch_area(dog_box, couch_box) ==
    LET inter_x1 == PyMax(dog_box[1], couch_box[1])
        inter_y1 == PyMax(dog_box[2], couch_box[2])
        inter_x2 == PyMin(dog_box[3], couch_box[3])
        inter_y2 == PyMin(dog_box[4], couch_box[4])
        intersection_area == (inter_x2 - inter_x1) * (inter_y2 - inter_y1)
        couch_area == (couch_box[3] - couch_box[1]) * (couch_box[4] - couch_box[2])
    IN  IF inter_x2 <= inter_x1 \/ inter_y2 <= inter_y1 THEN Float0
        ELSE IF couch_area <= 0 THEN Float0
        ELSE TrueDiv(intersection_area, couch_area)

\* Variant: intersection over union, which is symmetric.
calculate_overlap_ratio_iou(dog_box, couch_box) ==
    LET inter_x1 == PyMax(dog_box[1], couch_box[1])
        inter_y1 == PyMax(dog_box[2], couch_box[2])
        inter_x2 == PyMin(dog_box[3], couch_box[3])
        inter_y2 == PyMin(dog_box[4], couch_box[4])
        intersection_area == (inter_x2 - inter_x1) * (inter_y2 - inter_y1)
        dog_area == (dog_box[3] - dog_box[1]) * (dog_box[4] - dog_box[2])
        couch_area == (couch_box[3] - couch_box[1]) * (couch_box[4] - couch_box[2])
    IN  IF inter_x2 <= inter_x1 \/ inter_y2 <= inter_y1 THEN Float0
        ELSE IF dog_area <= 0 THEN Float0
        ELSE TrueDiv(intersection_area, dog_area + couch_area - intersection_area)

\* def calculate_overlap_ratio(dog_box, couch_box)
calculate_overlap_ratio(dog_box, couch_box) ==
    LET d_x1 == dog_box[1]
        d_y1 == dog_box[2]
        d_x2 == dog_box[3]
        d_y2 == dog_box[4]
        c_x1 == couch_box[1]
        c_y1 == couch_box[2]
        c_x2 == couch_box[3]
        c_y2 == couch_box[4]
        inter_x1 == PyMax(d_x1, c_x1)
        inter_y1 == PyMax(d_y1, c_y1)
        inter_x2 == PyMin(d_x2, c_x2)
        inter_y2 == PyMin(d_y2, c_y2)
        intersection_area == (inter_x2 - inter_x1) * (inter_y2 - inter_y1)
        dog_area == (d_x2 - d_x1) * (d_y2 - d_y1)
    IN  IF inter_x2 <= inter_x1 \/ inter_y2 <= inter_y1 THEN Float0
        ELSE IF dog_area <= 0 THEN Float0
        ELSE TrueDiv(intersection_area, dog_area)

\* The monitor loop stands still while a single function call is observed.
MonitorIdle ==
    /\ alert_cooldown = 0
    /\ test_mode = FALSE
    /\ last_alert_time = InitialLastAlertTime
    /\ running = FALSE
    /\ pc = "init"
    /\ clock = 0
    /\ result = NoResult
    /\ current_time = NoTime
    /\ exit_cause = "none"
    /\ cyc = NewCycle(InitialLastAlertTime)
    /\ sinkLog = << >>
    /\ seen_dog = FALSE
    /\ streak = NoStreak

GeomInit ==
    /\ MonitorIdle
    /\ det = NoCall
    /\ boot = NoCall
    /\ audio = NoCall
    /\ geo \in { [pc |-> "call", dog_box |-> a, couch_box |-> b,
                 ret |-> Float0, swapped |-> Float0] : a \in AllBoxes, b \in AllBoxes }

\* calculate_overlap_ratio(dog_box, couch_box) is called and returns.
CalcOverlap ==
    /\ geo.pc = "call"
    /\ geo' = [geo EXCEPT !.pc = "ret",
                          !.ret = calculate_overlap_ratio(geo.dog_box, geo.couch_box)]
    /\ UNCHANGED << mvars, det, boot, audio >>

\* The same two boxes with subject and reference exchanged.
CalcSwapped ==
    /\ geo.pc = "ret"
    /\ geo' = [geo EXCEPT !.pc = "ret2",
                          !.swapped = calculate_overlap_ratio(geo.couch_box, geo.dog_box)]
    /\ UNCHANGED << mvars, det, boot, audio >>

GeomNext ==
    \/ CalcOverlap
    \/ CalcSwapped

GeomSpec == GeomInit /\ [][GeomNext]_vars

\* ---- what the claims measure the function against: unit cells of the grid
\* A box is well formed when x1 < x2 and y1 < y2.
Valid(b) == b[1] < b[3] /\ b[2] < b[4]

\* The unit cells <<i, j>> = [i, i+1] x [j, j+1] a box covers.
Cells(b) ==
    { c \in (0..MaxCoord - 1) \X (0..MaxCoord - 1) :
        /\ b[1] <= c[1] /\ c[1] + 1 <= b[3]
        /\ b[2] <= c[2] /\ c[2] + 1 <= b[4] }

Area(b) == Cardinality(Cells(b))
InterArea(a, b) == Cardinality(Cells(a) \cap Cells(b))

\* The open intervals (a1, a2) and (b1, b2) have a point in common; with
\* integer ends, a common point exists iff one exists at a half-integer k/2.
ProjMeet(a1, a2, b1, b2) ==
    \E k \in 0..(2 * MaxCoord) :
        /\ 2 * a1 < k /\ k < 2 * a2
        /\ 2 * b1 < k /\ k < 2 * b2

StrictlyIntersect(a, b) ==
    /\ ProjMeet(a[1], a[3], b[1], b[3])
    /\ ProjMeet(a[2], a[4], b[2], b[4])

\* Box a lies entirely within box b.
Within(a, b) == b[1] <= a[1] /\ a[3] <= b[3] /\ b[2] <= a[2] /\ a[4] <= b[4]

Returned == geo.pc \in {"ret", "ret2"}

\* C15: calculate_overlap_ratio returns 0.0 whenever the projections of the
\* two boxes on the x axis or on the y axis have no point in common, boxes that
\* only touch at an edge or corner included.
C15_NoOverlapIsZero ==
    (Returned /\ ~StrictlyIntersect(geo.dog_box, geo.couch_box))
        => (~geo.ret.raised /\ geo.ret.num = 0)

\* C15 witness: A = [0,0,1,1] and B = [1,1,2,2] touch at a corner; 0.0 came back.
C15_Witness ==
    /\ geo.pc = "ret"
    /\ geo.dog_box = << 0, 0, 1, 1 >>
    /\ geo.couch_box = << 1, 1, 2, 2 >>
    /\ geo.ret = Float0

\* C16: for two well-formed boxes the ratio lies in [0.0, 1.0], and it is
\* exactly 1.0 when the subject box lies within the reference box.
C16_RatioInUnitInterval ==
    (Returned /\ Valid(geo.dog_box) /\ Valid(geo.couch_box)) =>
        /\ ~geo.ret.raised
        /\ geo.ret.den > 0
        /\ 0 <= geo.ret.num /\ geo.ret.num <= geo.ret.den
        /\ Within(geo.dog_box, geo.couch_box) => geo.ret.num = geo.ret.den

\* C16 witness: subject [1,1,2,2] inside reference [0,0,3,3] gave 1.0.
C16_Witness ==
    /\ geo.pc = "ret"
    /\ geo.dog_box = << 1, 1, 2, 2 >>
    /\ geo.couch_box = << 0, 0, 3, 3 >>
    /\ geo.ret.num = geo.ret.den
    /\ geo.ret.num > 0

\* C17: for boxes that strictly intersect on both axes the ratio is the area
\* of the intersection divided by the area of the subject box.
C17_RatioIsInterOverSubject ==
    (Returned /\ StrictlyIntersect(geo.dog_box, geo.couch_box)) =>
        /\ ~geo.ret.raised
        /\ geo.ret.den > 0
        /\ Area(geo.dog_box) > 0
        /\ geo.ret.num * Area(geo.dog_box)
             = InterArea(geo.dog_box, geo.couch_box) * geo.ret.den

\* C17 witness: subject [0,0,2,2] against [1,1,3,3] gave 1/4 (the reference
\* has area 4 too, and against [1,0,3,2] the same subject gives 1/2).
C17_Witness ==
    /\ geo.pc = "ret"
    /\ geo.dog_box = << 0, 0, 2, 2 >>
    /\ geo.couch_box = << 1, 1, 3, 3 >>
    /\ geo.ret.num * 4 = geo.ret.den

\* C18: for arbitrary 4-tuples the call never divides by zero and returns a
\* value in [0.0, 1.0], which is 0.0 whenever either box is degenerate or
\* inverted on some axis.
C18_MalformedIsZero ==
    Returned =>
        /\ ~geo.ret.raised
        /\ geo.ret.den > 0
        /\ 0 <= geo.ret.num /\ geo.ret.num <= geo.ret.den
        /\ (~Valid(geo.dog_box) \/ ~Valid(geo.couch_box)) => geo.ret.num = 0

\* C18 witness: a well-formed subject against a reference inverted on the y
\* axis gave 0.0.
C18_Witness ==
    /\ geo.pc = "ret"
    /\ geo.dog_box = << 0, 0, 2, 2 >>
    /\ geo.couch_box = << 0, 3, 3, 0 >>
    /\ geo.ret = Float0

\* C19: for two well-formed boxes A, B that strictly intersect, the ratio of
\* A against B equals the ratio of B against A exactly when A and B have equal
\* areas.
C19_SwapEqualIffEqualAreas ==
    ( /\ geo.pc = "ret2"
      /\ Valid(geo.dog_box) /\ Valid(geo.couch_box)
      /\ StrictlyIntersect(geo.dog_box, geo.couch_box) )
    => ( FloatEq(geo.ret, geo.swapped)
           <=> Area(geo.dog_box) = Area(geo.couch_box) )

\* C19 witness: A = [0,0,2,2], B = [1,1,2,2]: 1/4 one way, 1.0 the other.
C19_Witness ==
    /\ geo.pc = "ret2"
    /\ geo.dog_box = << 0, 0, 2, 2 >>
    /\ geo.couch_box = << 1, 1, 2, 2 >>
    /\ geo.ret.num * 4 = geo.ret.den
    /\ geo.swapped.num = geo.swapped.den

\* ================================================== UltralyticsDetector.detect
\* One call of detect on one model output.  results[0].boxes is a sequence of
\* detections [cls, xyxy, conf]; conf is kept in tenths.
MaxDet == 3     \* at most this many detections in a frame

\* self.PERSON_CLASS, self.DOG_CLASS, self.COUCH_CLASS
PERSON_CLASS == 0
DOG_CLASS == 16
COUCH_CLASS == 57

\* The classes the model reports here: the three above and one other (15, cat).
Classes == {PERSON_CLASS, DOG_CLASS, COUCH_CLASS, 15}

\* The boxes of the frames: pairwise ratios 0, 1/2 and 1 occur among them.
FrameBoxes == { << 0, 0, 1, 1 >>, << 0, 0, 2, 1 >>, << 1, 0, 3, 1 >> }

Confs == {1, 2}

\* self.min_overlap_threshold: 0.0 and 0.5
Thresholds == { Float0, [raised |-> FALSE, num |-> 1, den |-> 2] }

\* image_filename: None or a name
Filenames == {"None", "test_image.png"}

Detections == [cls : Classes, xyxy : FrameBoxes, conf : Confs]

SeqsUpTo(S, n) == UNION { [1..k -> S] : k \in 0..n }

\* The bbox list of one class, in detection order (the three appends of the
\* loop over result.boxes).
BoxesOfClass(boxes, cls) ==
    LET sel == SelectSeq(boxes, LAMBDA b : b.cls = cls)
    IN  [i \in 1..Len(sel) |-> sel[i].xyxy]

\* confidences[label] = max(confidences[label], conf) over the detections of
\* the class, from 0.0.
RECURSIVE MaxConfFrom(_, _, _, _)
MaxConfFrom(boxes, cls, i, acc) ==
    IF i > Len(boxes) THEN acc
    ELSE MaxConfFrom(boxes, cls, i + 1,
                     IF boxes[i].cls = cls THEN PyMax(acc, boxes[i].conf) ELSE acc)

\* max(max_overlap_ratio, overlap) on floats
FloatMax(a, b) == IF FloatLt(a, b) THEN b ELSE a

\* The nested loop over dog_boxes and couch_boxes from pair (i, j) on, with
\* max_overlap_ratio = mx so far: the first pair whose overlap reaches the
\* threshold sets dog_on_couch and breaks out of both loops.
RECURSIVE DogCouchLoop(_, _, _, _, _, _)
DogCouchLoop(dog_boxes, couch_boxes, threshold, i, j, mx) ==
    IF i > Len(dog_boxes)
    THEN [dog_on_couch |-> FALSE, max_overlap_ratio |-> mx]
    ELSE IF j > Len(couch_boxes)
    THEN DogCouchLoop(dog_boxes, couch_boxes, threshold, i + 1, 1, mx)
    ELSE LET overlap == calculate_overlap_ratio(dog_boxes[i], couch_boxes[j])
             mx2 == FloatMax(mx, overlap)
         IN  IF FloatLe(threshold, overlap)
             THEN [dog_on_couch |-> TRUE, max_overlap_ratio |-> mx2]
             ELSE DogCouchLoop(dog_boxes, couch_boxes, threshold, i, j + 1, mx2)

\* person_on_couch: only looked for when no dog is on the couch; some person
\* box overlaps some couch box by more than 0.
PersonLoop(dog_on_couch, person_boxes, couch_boxes) ==
    /\ ~dog_on_couch
    /\ \E i \in 1..Len(person_boxes) : \E j \in 1..Len(couch_boxes) :
         FloatLt(Float0, calculate_overlap_ratio(person_boxes[i], couch_boxes[j]))

\* The fields of the dataclass DetectionResult (domain/model.py).
DetectionResultFields == {"dog_on_couch", "confidence", "boxes", "image_filename"}

\* DetectionResult(**kwargs): the generated __init__ raises TypeError on a
\* keyword that is no field of the dataclass.
NewDetectionResult(kwargs) ==
    IF DOMAIN kwargs \subseteq DetectionResultFields
    THEN [raised |-> "none", value |-> kwargs]
    ELSE [raised |-> "TypeError", value |-> [dog_on_couch |-> FALSE]]

DetInit ==
    /\ MonitorIdle
    /\ geo = NoCall
    /\ boot = NoCall
    /\ audio = NoCall
    /\ \E bs \in SeqsUpTo(Detections, MaxDet), th \in Thresholds, fn \in Filenames :
         det = [ pc |-> "call", boxes_in |-> bs, min_overlap_threshold |-> th,
                 image_filename |-> fn ]

\* detect(frame, image_filename): the whole body, from the model's output to
\* the DetectionResult(...) call at its end.
Detect ==
    /\ det.pc = "call"
    /\ LET boxes == det.boxes_in
           person_boxes == BoxesOfClass(boxes, PERSON_CLASS)
           dog_boxes == BoxesOfClass(boxes, DOG_CLASS)
           couch_boxes == BoxesOfClass(boxes, COUCH_CLASS)
           confidences == [ person |-> MaxConfFrom(boxes, PERSON_CLASS, 1, 0),
                            dog    |-> MaxConfFrom(boxes, DOG_CLASS, 1, 0),
                            couch  |-> MaxConfFrom(boxes, COUCH_CLASS, 1, 0) ]
           scan == DogCouchLoop(dog_boxes, couch_boxes,
                                det.min_overlap_threshold, 1, 1, Float0)
           person_on_couch == PersonLoop(scan.dog_on_couch, person_boxes, couch_boxes)
           made == NewDetectionResult(
                       [ dog_on_couch   |-> scan.dog_on_couch,
                         confidence     |-> confidences,
                         boxes          |-> [ person |-> person_boxes,
                                              dog    |-> dog_boxes,
                                              couch  |-> couch_boxes ],
                         image_filename |-> det.image_filename,
                         overlap_ratio  |-> scan.max_overlap_ratio ])
       IN  det' = [ pc |-> "done",
                    boxes_in |-> det.boxes_in,
                    min_overlap_threshold |-> det.min_overlap_threshold,
                    image_filename |-> det.image_filename,
                    person_boxes |-> person_boxes,
                    dog_boxes |-> dog_boxes,
                    couch_boxes |-> couch_boxes,
                    confidences |-> confidences,
                    dog_on_couch |-> scan.dog_on_couch,
                    max_overlap_ratio |-> scan.max_overlap_ratio,
                    person_on_couch |-> person_on_couch,
                    raised |-> made.raised,
                    ret |-> made.value ]
    /\ UNCHANGED << mvars, geo, boot, audio >>

DetNext == Detect

DetSpec == DetInit /\ [][DetNext]_vars

\* The ratios of all (dog box, couch box) pairs of the frame.
PairRatios(dog_boxes, couch_boxes) ==
    { calculate_overlap_ratio(dog_boxes[i], couch_boxes[j]) :
        i \in 1..Len(dog_boxes), j \in 1..Len(couch_boxes) }

\* r is the maximum over the full cross product, 0.0 when there is no pair.
IsMaxPairRatio(r, dog_boxes, couch_boxes) ==
    LET rs == PairRatios(dog_boxes, couch_boxes) \cup {Float0}
    IN  /\ \E q \in rs : FloatEq(q, r)
        /\ \A q \in rs : FloatLe(q, r)

\* C20 (as claimed): the overlap ratio detect computes for its result (the
\* value it passes as overlap_ratio) is the maximum of calculate_overlap_ratio
\* over all pairs of a dog box and a couch box of the frame, 0.0 without a pair.
C20_ReportsFullMaximum ==
    det.pc = "done" =>
        IsMaxPairRatio(det.max_overlap_ratio,
                       BoxesOfClass(det.boxes_in, DOG_CLASS),
                       BoxesOfClass(det.boxes_in, COUCH_CLASS))

\* The dog and couch boxes of the frame of the call.
FrameDogBoxes == BoxesOfClass(det.boxes_in, DOG_CLASS)

FrameCouchBoxes == BoxesOfClass(det.boxes_in, COUCH_CLASS)

\* C21 (as claimed): a detector that differs from the one of the call only in
\* min_overlap_threshold computes the same overlap ratio for the same frame.
C21_RatioIndependentOfThreshold ==
    det.pc = "done" =>
        \A th \in Thresholds :
            FloatEq(DogCouchLoop(FrameDogBoxes, FrameCouchBoxes, th, 1, 1,
                                 Float0).max_overlap_ratio,
                    det.max_overlap_ratio)

\* C22 (as claimed): the dog_on_couch verdict is true exactly when the maximum
\* pairwise ratio of the frame, 0.0 when there is no dog box or no couch box,
\* is at least min_overlap_threshold.
C22_VerdictIffMaxReachesThreshold ==
    det.pc = "done" =>
        ( det.dog_on_couch
            <=> \E r \in PairRatios(FrameDogBoxes, FrameCouchBoxes) \cup {Float0} :
                    /\ IsMaxPairRatio(r, FrameDogBoxes, FrameCouchBoxes)
                    /\ FloatLe(det.min_overlap_threshold, r) )

\* What holds of the verdict: it is true exactly when some (dog box, couch
\* box) pair of the frame has a ratio of at least min_overlap_threshold.
VerdictIffSomePairReachesThreshold ==
    det.pc = "done" =>
        ( det.dog_on_couch
            <=> \E r \in PairRatios(FrameDogBoxes, FrameCouchBoxes) :
                    FloatLe(det.min_overlap_threshold, r) )

\* C23 (as claimed): detect returns normally, and its result carries
\* dog_on_couch, confidence, boxes (person, dog, couch), image_filename and an
\* overlap_ratio in [0.0, 1.0].
C23_ReturnsResultWithRatio ==
    det.pc = "done" =>
        /\ det.raised = "none"
        /\ DOMAIN det.ret = DetectionResultFields \cup {"overlap_ratio"}
        /\ DOMAIN det.ret.boxes = {"person", "dog", "couch"}
        /\ FloatLe(Float0, det.ret.overlap_ratio)
        /\ det.ret.overlap_ratio.num <= det.ret.overlap_ratio.den

\* C24 (as claimed): detect returns a result whose verdict and ratio are those
\* the frame's boxes and the threshold alone determine, whatever
\* image_filename was passed, and whose image_filename is the one passed.
C24_ResultFunctionOfBoxes ==
    det.pc = "done" =>
        /\ det.raised = "none"
        /\ det.ret.image_filename = det.image_filename
        /\ LET scan == DogCouchLoop(FrameDogBoxes, FrameCouchBoxes,
                                    det.min_overlap_threshold, 1, 1, Float0)
           IN  /\ det.ret.dog_on_couch = scan.dog_on_couch
               /\ det.ret.overlap_ratio = scan.max_overlap_ratio

\* The highest conf among the detections of class cls, 0.0 without one.
HighestConf(boxes, cls) ==
    LET S == { boxes[i].conf : i \in { j \in 1..Len(boxes) : boxes[j].cls = cls } }
    IN  IF S = {} THEN 0 ELSE CHOOSE m \in S : \A x \in S : x <= m

\* The frame without its detections of other classes.
TrackedOnly(boxes) ==
    SelectSeq(boxes, LAMBDA b : b.cls \in {PERSON_CLASS, DOG_CLASS, COUCH_CLASS})

\* confidence c and boxes b are what the claim says of the frame: per label
\* the highest conf (0.0 without a detection), and nothing of other classes.
ConfidencesOfFrame(c, b) ==
    /\ c.person = HighestConf(det.boxes_in, PERSON_CLASS)
    /\ c.dog = HighestConf(det.boxes_in, DOG_CLASS)
    /\ c.couch = HighestConf(det.boxes_in, COUCH_CLASS)
    /\ c.person = HighestConf(TrackedOnly(det.boxes_in), PERSON_CLASS)
    /\ c.dog = HighestConf(TrackedOnly(det.boxes_in), DOG_CLASS)
    /\ c.couch = HighestConf(TrackedOnly(det.boxes_in), COUCH_CLASS)
    /\ b.person = BoxesOfClass(TrackedOnly(det.boxes_in), PERSON_CLASS)
    /\ b.dog = BoxesOfClass(TrackedOnly(det.boxes_in), DOG_CLASS)
    /\ b.couch = BoxesOfClass(TrackedOnly(det.boxes_in), COUCH_CLASS)

\* C27 (as claimed): detect returns a result whose confidence per label is the
\* highest of the frame (0.0 without a detection), detections of other classes
\* changing neither confidence nor boxes.
C27_ResultConfidences ==
    det.pc = "done" =>
        /\ det.raised = "none"
        /\ ConfidencesOfFrame(det.ret.confidence, det.ret.boxes)

\* What holds of the values detect computes before it builds its result.
ComputedConfidences ==
    det.pc = "done" =>
        ConfidencesOfFrame(det.confidences,
                           [ person |-> det.person_boxes, dog |-> det.dog_boxes,
                             couch |-> det.couch_boxes ])

\* Ratio r and verdict d are within the claim's bounds for the frame: r is at
\* most the true maximum, is the maximum when d is false, reaches the
\* threshold when d is true; d needs a dog box and a couch box.
RatioWithinBounds(r, d) ==
    /\ \E m \in PairRatios(FrameDogBoxes, FrameCouchBoxes) \cup {Float0} :
         /\ IsMaxPairRatio(m, FrameDogBoxes, FrameCouchBoxes)
         /\ FloatLe(r, m)
         /\ ~d => FloatEq(r, m)
    /\ d => FloatLe(det.min_overlap_threshold, r)
    /\ d => Len(FrameDogBoxes) >= 1 /\ Len(FrameCouchBoxes) >= 1

\* C30 (as claimed): detect returns a result whose overlap_ratio never exceeds
\* the true maximum pairwise ratio, is that maximum when dog_on_couch is false
\* and reaches min_overlap_threshold when it is true; dog_on_couch needs a dog
\* box and a couch box.
C30_ResultRatioBounds ==
    det.pc = "done" =>
        /\ det.raised = "none"
        /\ RatioWithinBounds(det.ret.overlap_ratio, det.ret.dog_on_couch)

\* What holds of the values detect computes before it builds its result.
ComputedRatioBounds ==
    det.pc = "done" => RatioWithinBounds(det.max_overlap_ratio, det.dog_on_couch)

\* ===================================== AppSettings.load and bootstrap.main
\* One run of main() under one environment.  An environment variable is
\* << >> when unset and << v >> when set to v.  Thresholds are in hundredths,
\* times in seconds.
EnvConfidence == { << >>, << -1 >>, << 0 >>, << 100 >>, << 101 >> }

EnvInterval == { << >>, << -1 >>, << 0 >> }

EnvCooldown == { << >>, << -1 >>, << 0 >> }

EnvOverlap == { << >>, << -1 >>, << 50 >>, << 101 >> }

EnvWidth == { << >>, << 0 >> }

EnvFlag == { << >>, << "1" >> }

\* IMAGE_DIR: unset, or a directory with or without the fallback image
EnvImageDir == {"unset", "with_image", "without_image"}

\* The defaults of AppSettings.load: 0.20, 0.25, 10.0, 300.0, 0.3, 640
Defaults ==
    [ CONFIDENCE_THRESHOLD |-> 20, PERSON_CONFIDENCE_THRESHOLD |-> 25,
      CHECK_INTERVAL |-> 10, ALERT_COOLDOWN |-> 300,
      MIN_OVERLAP_THRESHOLD |-> 30, CAMERA_RESOLUTION_WIDTH |-> 640 ]

\* min_overlap_threshold=0.3, the default of UltralyticsDetector.__init__
DetectorDefaults == [ min_overlap_threshold |-> 30 ]

\* _getenv_float / _getenv_int: the value when set, else the default
GetenvNumber(v, default) == IF v = << >> THEN default ELSE v[1]

\* AppSettings.load up to settings._validate(): the fields read from env.
LoadedSettings(env) ==
    [ confidence_threshold |->
          GetenvNumber(env.CONFIDENCE_THRESHOLD, Defaults.CONFIDENCE_THRESHOLD),
      person_confidence_threshold |->
          GetenvNumber(env.PERSON_CONFIDENCE_THRESHOLD,
                       Defaults.PERSON_CONFIDENCE_THRESHOLD),
      check_interval |-> GetenvNumber(env.CHECK_INTERVAL, Defaults.CHECK_INTERVAL),
      alert_cooldown |-> GetenvNumber(env.ALERT_COOLDOWN, Defaults.ALERT_COOLDOWN),
      min_overlap_threshold |->
          GetenvNumber(env.MIN_OVERLAP_THRESHOLD, Defaults.MIN_OVERLAP_THRESHOLD),
      width |-> GetenvNumber(env.CAMERA_RESOLUTION_WIDTH,
                             Defaults.CAMERA_RESOLUTION_WIDTH),
      test_mode |-> (env.TEST_MODE = << "1" >>),
      model_dir |-> env.MODEL_DIR,
      image_dir |-> env.IMAGE_DIR ]

\* AppSettings._validate: TRUE when none of its four tests raises ValueError.
Validate(s) ==
    /\ ~(s.width <= 0)
    /\ (0 <= s.confidence_threshold /\ s.confidence_threshold <= 100)
    /\ ~(s.check_interval <= 0)
    /\ ~(s.alert_cooldown < 0)

NoSettings == [ loaded |-> FALSE ]

NoObject == [ built |-> FALSE ]

BootInit ==
    /\ MonitorIdle
    /\ geo = NoCall
    /\ det = NoCall
    /\ audio = NoCall
    /\ \E ct \in EnvConfidence, pt \in EnvConfidence, ci \in EnvInterval,
          ac \in EnvCooldown, mo \in EnvOverlap, w \in EnvWidth, tm \in EnvFlag,
          md \in EnvFlag, im \in EnvImageDir, cam \in BOOLEAN, yolo \in BOOLEAN :
         boot = [ pc |-> "load",
                  env |-> [ CONFIDENCE_THRESHOLD |-> ct,
                            PERSON_CONFIDENCE_THRESHOLD |-> pt,
                            CHECK_INTERVAL |-> ci, ALERT_COOLDOWN |-> ac,
                            MIN_OVERLAP_THRESHOLD |-> mo,
                            CAMERA_RESOLUTION_WIDTH |-> w, TEST_MODE |-> tm,
                            MODEL_DIR |-> md, IMAGE_DIR |-> im ],
                  picamera_ok |-> cam,     \* Picamera2FrameSource can be built
                  yolo_ok |-> yolo,        \* the YOLO model can be loaded
                  settings |-> NoSettings,
                  frame_source |-> "none",
                  detector |-> NoObject,
                  app |-> NoObject,
                  raised |-> "none",       \* exception that left main
                  exit_code |-> -1 ]       \* sys.exit code, -1 while none

\* settings = AppSettings.load(env_file=env_file): the ValueError of _validate
\* leaves main, which has no handler around it.
Load ==
    /\ boot.pc = "load"
    /\ LET s == LoadedSettings(boot.env)
       IN  IF Validate(s)
           THEN boot' = [boot EXCEPT !.pc = "frame_source",
                                     !.settings = [loaded |-> TRUE, v |-> s]]
           ELSE boot' = [boot EXCEPT !.pc = "crashed", !.raised = "ValueError"]
    /\ UNCHANGED << mvars, geo, det, audio >>

\* 1. Adapter: Frame Source.  Picamera2 when it can be built, else the file
\* source on IMAGE_DIR's test image; sys.exit(1) when that is missing, and
\* Path(None) raises TypeError when IMAGE_DIR is unset.
BuildFrameSource ==
    /\ boot.pc = "frame_source"
    /\ boot' =
         IF boot.picamera_ok
         THEN [boot EXCEPT !.pc = "detector", !.frame_source = "Picamera2FrameSource"]
         ELSE IF boot.settings.v.image_dir = "unset"
         THEN [boot EXCEPT !.pc = "crashed", !.raised = "TypeError"]
         ELSE IF boot.settings.v.image_dir = "with_image"
         THEN [boot EXCEPT !.pc = "detector", !.frame_source = "FileFrameSource"]
         ELSE [boot EXCEPT !.pc = "exited", !.exit_code = 1]
    /\ UNCHANGED << mvars, geo, det, audio >>

\* 2. Adapter: Detector.  Both branches pass the model and conf_threshold
\* only, so person_confidence_threshold (None or conf_threshold) and
\* min_overlap_threshold take the values of UltralyticsDetector.__init__.
BuildDetector ==
    /\ boot.pc = "detector"
    /\ boot' =
         IF boot.yolo_ok
         THEN [boot EXCEPT
                 !.pc = "app",
                 !.detector =
                     [ built |-> TRUE,
                       conf_threshold |-> boot.settings.v.confidence_threshold,
                       person_confidence_threshold |->
                           boot.settings.v.confidence_threshold,
                       min_overlap_threshold |->
                           DetectorDefaults.min_overlap_threshold ]]
         ELSE [boot EXCEPT !.pc = "exited", !.exit_code = 1]
    /\ UNCHANGED << mvars, geo, det, audio >>

\* 3. Adapter: Alert Sink, 4. App: Monitor.  CouchMonitorApp.__init__ copies
\* check_interval, alert_cooldown and test_mode from settings.detection.
BuildApp ==
    /\ boot.pc = "app"
    /\ boot' = [boot EXCEPT
                  !.pc = "run",
                  !.app = [ built |-> TRUE,
                            check_interval |-> boot.settings.v.check_interval,
                            alert_cooldown |-> boot.settings.v.alert_cooldown,
                            test_mode |-> boot.settings.v.test_mode ]]
    /\ UNCHANGED << mvars, geo, det, audio >>

\* app.run(): the monitor loop is started.
RunApp ==
    /\ boot.pc = "run"
    /\ boot' = [boot EXCEPT !.pc = "running"]
    /\ UNCHANGED << mvars, geo, det, audio >>

BootNext ==
    \/ Load
    \/ BuildFrameSource
    \/ BuildDetector
    \/ BuildApp
    \/ RunApp

BootSpec == BootInit /\ [][BootNext]_vars

\* AppSettings.load has returned settings to main.
Loaded == boot.pc \notin {"load", "crashed"} /\ boot.settings.loaded

InUnit(x) == 0 <= x /\ x <= 100

\* C25 (as claimed): the settings AppSettings.load returns have alert_cooldown
\* >= 0, check_interval > 0 and both confidence thresholds in [0, 1]; a
\* configuration failing one of these raises out of load, and no app that main
\* has built and run carries such a value.
C25_LoadRejectsInvalid ==
    /\ Loaded =>
         /\ boot.settings.v.alert_cooldown >= 0
         /\ boot.settings.v.check_interval > 0
         /\ InUnit(boot.settings.v.confidence_threshold)
         /\ InUnit(boot.settings.v.person_confidence_threshold)
    /\ boot.pc = "running" =>
         /\ boot.app.alert_cooldown >= 0
         /\ boot.app.check_interval > 0
         /\ InUnit(boot.detector.conf_threshold)
         /\ InUnit(boot.detector.person_confidence_threshold)

\* What holds: the three values _validate tests are valid once load has
\* returned, and so are the values the running app and its detector carry.
ValidatedValuesValid ==
    /\ Loaded =>
         /\ boot.settings.v.alert_cooldown >= 0
         /\ boot.settings.v.check_interval > 0
         /\ InUnit(boot.settings.v.confidence_threshold)
    /\ boot.pc = "running" =>
         /\ boot.app.alert_cooldown >= 0
         /\ boot.app.check_interval > 0
         /\ InUnit(boot.detector.conf_threshold)
         /\ InUnit(boot.detector.person_confidence_threshold)

\* C28 (as claimed): the detector of the running application applies the
\* configured DetectionSettings.min_overlap_threshold, a value in [0.0, 1.0].
C28_DetectorUsesConfiguredOverlap ==
    boot.pc = "running" =>
        /\ boot.detector.min_overlap_threshold = boot.settings.v.min_overlap_threshold
        /\ InUnit(boot.detector.min_overlap_threshold)

\* ========================================================= AudioAlert.alert
\* One call of alert(result) on one AudioAlert object.  pygame and the file
\* system are the environment: every call into them returns or raises.
MaxWait == 2    \* pygame.mixer.get_busy() is polled at most this often

\* What self.sound_dir may contain: name, Path.suffix, Path.is_file().
DirEntries ==
    { [name |-> "bark1.wav", suffix |-> ".wav", is_file |-> TRUE],
      [name |-> "BARK2.MP3", suffix |-> ".MP3", is_file |-> TRUE],
      [name |-> "bark3.ogg", suffix |-> ".ogg", is_file |-> TRUE],
      [name |-> "notes.txt", suffix |-> ".txt", is_file |-> TRUE],
      [name |-> "old.wav",   suffix |-> ".wav", is_file |-> FALSE] }

\* str.lower() on the suffixes above
Lower(sfx) == IF sfx = ".MP3" THEN ".mp3" ELSE sfx

\* candidates of _pick_sound_file
Candidates(entries) ==
    { e \in entries : e.is_file /\ Lower(e.suffix) \in {".wav", ".mp3", ".ogg"} }

\* The exceptions pygame and pathlib raise here; all derive from Exception.
SinkExceptions == {"pygame.error", "FileNotFoundError", "PermissionError"}

\* Variant: the handler is written for pygame's own error class only.
Caught_pygame_only(exc) == exc = "pygame.error"

\* except Exception as e: the handler of alert takes every Exception.
Caught(exc) == exc \in SinkExceptions

\* An exception thrown inside alert's try block: the handler logs it and
\* alert returns; an exception it does not take reaches the caller.
Thrown(a, exc) ==
    IF Caught(exc)
    THEN [a EXCEPT !.pc = "returned", !.threw = exc,
                   !.logged = "Failed to play alert sound"]
    ELSE [a EXCEPT !.pc = "raised", !.threw = exc, !.raised = exc]

AudioInit ==
    /\ MonitorIdle
    /\ geo = NoCall
    /\ det = NoCall
    /\ boot = NoCall
    /\ \E sf \in {"", "/tmp/test.wav"}, mx \in BOOLEAN,
          sd \in {"none", "missing", "not_a_dir", "dir"},
          es \in SUBSET DirEntries :
         /\ sd # "dir" => es = {}
         /\ audio = [ pc |-> "call",
                      sound_file |-> sf,       \* self.sound_file
                      sound_dir |-> sd,        \* self.sound_dir and what is there
                      entries |-> es,          \* the directory's content
                      mixer_ok |-> mx,         \* pygame.mixer.init() succeeded
                      picked |-> "none",       \* local sound_file, "none" for None
                      loaded |-> FALSE,        \* pygame.mixer.Sound(...) returned
                      played |-> FALSE,        \* sound.play() returned
                      waits |-> 0,             \* pygame.time.wait calls made
                      logged |-> "none",       \* the last error logged
                      threw |-> "none",        \* exception thrown inside the try
                      raised |-> "none" ]      \* exception that reached the caller

\* sound_file = self._pick_sound_file(); if not sound_file: return
PickSoundFile ==
    /\ audio.pc = "call"
    /\ \/ /\ audio.sound_dir = "none"
          /\ audio' = IF audio.sound_file = ""
                      THEN [audio EXCEPT !.pc = "returned"]
                      ELSE [audio EXCEPT !.pc = "picked", !.picked = audio.sound_file]
       \/ /\ audio.sound_dir \in {"missing", "not_a_dir"}
          /\ audio' = [audio EXCEPT !.pc = "returned",
                                    !.logged = "Alert sound directory not found"]
       \/ /\ audio.sound_dir = "dir"
          /\ \/ audio' = Thrown(audio, "PermissionError")     \* iterdir() raises
             \/ /\ Candidates(audio.entries) = {}
                /\ audio' = [audio EXCEPT !.pc = "returned",
                                          !.logged = "No alert sounds found"]
             \/ \E c \in Candidates(audio.entries) :              \* random.choice
                  audio' = [audio EXCEPT !.pc = "picked", !.picked = c.name]
    /\ UNCHANGED << mvars, geo, det, boot >>

\* sound = pygame.mixer.Sound(sound_file)
LoadSound ==
    /\ audio.pc = "picked"
    /\ \/ /\ audio.mixer_ok
          /\ audio' = [audio EXCEPT !.pc = "loaded", !.loaded = TRUE]
       \/ audio' = Thrown(audio, "pygame.error")
       \/ audio' = Thrown(audio, "FileNotFoundError")
    /\ UNCHANGED << mvars, geo, det, boot >>

\* sound.set_volume(self.volume); sound.play()
PlaySound ==
    /\ audio.pc = "loaded"
    /\ \/ audio' = [audio EXCEPT !.pc = "waiting", !.played = TRUE]
       \/ audio' = Thrown(audio, "pygame.error")
    /\ UNCHANGED << mvars, geo, det, boot >>

\* while pygame.mixer.get_busy(): pygame.time.wait(100)
WaitBusy ==
    /\ audio.pc = "waiting"
    /\ \/ /\ audio.waits < MaxWait
          /\ audio' = [audio EXCEPT !.waits = @ + 1]
       \/ audio' = [audio EXCEPT !.pc = "returned"]
       \/ audio' = Thrown(audio, "pygame.error")
    /\ UNCHANGED << mvars, geo, det, boot >>

AudioNext ==
    \/ PickSoundFile
    \/ LoadSound
    \/ PlaySound
    \/ WaitBusy

AudioSpec == AudioInit /\ [][AudioNext]_vars

\* No sound file can be chosen: the sound directory is missing, is no
\* directory, or holds no regular file ending in .wav, .mp3 or .ogg.
NothingToChoose ==
    \/ audio.sound_dir \in {"missing", "not_a_dir"}
    \/ /\ audio.sound_dir = "dir"
       /\ \A e \in audio.entries :
            ~e.is_file \/ e.name \in {"notes.txt"}

\* C26: alert never raises to its caller; when no sound file can be chosen it
\* returns without loading or playing anything; when picking, loading,
\* playing or waiting throws, the error is logged and alert returns normally.
C26_AlertNeverRaises ==
    /\ audio.pc # "raised" /\ audio.raised = "none"
    /\ (NothingToChoose /\ audio.pc # "call")
         => /\ audio.pc = "returned"
            /\ ~audio.loaded /\ ~audio.played /\ audio.picked = "none"
    /\ audio.threw # "none"
         => /\ audio.pc = "returned"
            /\ audio.logged = "Failed to play alert sound"

\* C26 witness: a sound was chosen from the directory and loaded, playing it
\* threw, and alert has returned with the error logged.
C26_Witness ==
    /\ audio.pc = "returned"
    /\ audio.sound_dir = "dir"
    /\ audio.picked = "BARK2.MP3"
    /\ audio.loaded /\ ~audio.played
    /\ audio.threw = "pygame.error"
    /\ audio.logged = "Failed to play alert sound"
    /\ audio.raised = "none"

====
